---- MODULE Spec2Model ----
(***************************************************************************)
(* Stack-safe destruction of lexpr `Value` trees (lexpr/src/drop.rs).      *)
(*                                                                         *)
(* A Value is a record [tag, id, slots]: `tag` is the enum variant, `id`   *)
(* identifies the node of the original tree (its path from the root; the   *)
(* payload of a leaf is abstracted to its id), `slots` are the owned       *)
(* children: <<car, cdr>> for Cons, the elements for Vector, <<>> for a    *)
(* leaf.  Option<T> is a sequence of length 0 (None) or 1 (Some).          *)
(***************************************************************************)
EXTENDS Integers, Sequences, FiniteSets, TLC

\* ------------------------------------------------------------------ bounds
MaxNodes == 6
MaxOpNodes == 4
MaxCalls == 3
MaxDepth == 5
MaxList == 5

\* ------------------------------------------------------------ value model
LeafTags == {"Nil", "Null", "Bool", "Number", "Char", "String", "Symbol", "Keyword", "Bytes"}

BranchTags == {"Cons", "Vector"}

Tags == LeafTags \cup BranchTags

None == << >>

Some(v) == << v >>

PlaceholderId == << 0 >>

RootId == << 1 >>

Leaf(tag, id) == [tag |-> tag, id |-> id, slots |-> << >>]

Cons(id, car, cdr) == [tag |-> "Cons", id |-> id, slots |-> << car, cdr >>]

Vector(id, elems) == [tag |-> "Vector", id |-> id, slots |-> elems]

\* const LEAF: Value = Value::Nil
LEAF == Leaf("Nil", PlaceholderId)

\* Variant of is_branch_node: a zero-length Vector counts as a leaf.
is_branch_node_NoEmptyVector(value) ==
    CASE value.tag = "Cons" -> TRUE
      [] value.tag = "Vector" -> Len(value.slots) > 0
      [] value.tag \in LeafTags -> FALSE

\* Variant of is_branch_node: the Cons arm is missing from the `true` pattern.
is_branch_node_OnlyVector(value) ==
    CASE value.tag = "Vector" -> TRUE
      [] value.tag \in LeafTags \cup {"Cons"} -> FALSE

\* fn is_branch_node(value: &Value) -> bool
is_branch_node(value) ==
    CASE value.tag \in {"Cons", "Vector"} -> TRUE
      [] value.tag \in LeafTags -> FALSE

\* Variant of child_at_index_0: the Cons arm hands out cdr_mut().
child_at_index_0_Cdr(value) ==
    CASE value.tag = "Cons" -> Some(2)
      [] value.tag = "Vector" -> IF Len(value.slots) >= 1 THEN Some(1) ELSE None
      [] value.tag \in LeafTags -> None

\* fn child_at_index_0(value: &mut Value) -> Option<&mut Value>
\* The reference is modelled by the position of the slot it points to.
child_at_index_0(value) ==
    CASE value.tag = "Cons" -> Some(1)
      [] value.tag = "Vector" -> IF Len(value.slots) >= 1 THEN Some(1) ELSE None
      [] value.tag \in LeafTags -> None

\* Variant of replace_branch_node: a leaf `prev` is forgotten, not dropped.
replace_branch_node_Forget(dest, src) ==
    LET prev == dest
    IN  IF is_branch_node(prev)
        THEN [dest |-> src, ret |-> Some(prev), dropped |-> << >>]
        ELSE [dest |-> src, ret |-> None, dropped |-> << >>]

\* Variant of replace_branch_node: `prev` is dest.clone() and *dest = src
\* drops the replaced value, so the value handed out is a second copy.
replace_branch_node_Clone(dest, src) ==
    LET prev == dest
    IN  IF is_branch_node(prev)
        THEN [dest |-> src, ret |-> Some(prev), dropped |-> << dest >>]
        ELSE [dest |-> src, ret |-> None, dropped |-> << dest, prev >>]

\* fn replace_branch_node(dest: &mut Value, src: Value) -> Option<Value>
\* `dest` is the value behind the reference; the result carries the new
\* content of the place, the returned option and the values dropped on return.
replace_branch_node(dest, src) ==
    LET prev == dest
    IN  IF is_branch_node(prev)
        THEN [dest |-> src, ret |-> Some(prev), dropped |-> << >>]
        ELSE [dest |-> src, ret |-> None, dropped |-> << prev >>]

\* Variant of take_branch_node: LEAF is Value::Null.
take_branch_node_Null(value) ==
    replace_branch_node(value, Leaf("Null", PlaceholderId))

\* Variant of take_branch_node: a leaf is left in place, only a branch is taken.
take_branch_node_KeepLeaf(value) ==
    IF is_branch_node(value)
    THEN replace_branch_node(value, LEAF)
    ELSE [dest |-> value, ret |-> None, dropped |-> << >>]

\* fn take_branch_node(value: &mut Value) -> Option<Value>
take_branch_node(value) == replace_branch_node(value, LEAF)

\* Variant of set_parent_at_index_0: a replaced branch child0 is not handed
\* back (`Some(_) => SetParent::Yes`), so it is dropped on return.
set_parent_at_index_0_DropsChild0(self, parent) ==
    LET c == child_at_index_0(self)
    IN  IF c # None
        THEN LET r == replace_branch_node(self.slots[c[1]], parent)
                 node == [self EXCEPT !.slots[c[1]] = r.dest]
             IN  [node |-> node, kind |-> "Yes", ret |-> None,
                  dropped |-> r.dropped \o r.ret, panic |-> FALSE]
        ELSE [node |-> self, kind |-> "No", ret |-> Some(parent),
              dropped |-> << >>, panic |-> FALSE]

\* Variant of set_parent_at_index_0: without a slot 0 the parent is not handed
\* back (`None => SetParent::Yes`), so it is dropped on return.
set_parent_at_index_0_ParentLost(self, parent) ==
    LET c == child_at_index_0(self)
    IN  IF c # None
        THEN LET r == replace_branch_node(self.slots[c[1]], parent)
                 node == [self EXCEPT !.slots[c[1]] = r.dest]
             IN  IF r.ret # None
                 THEN [node |-> node, kind |-> "YesReplacedChild", ret |-> r.ret,
                       dropped |-> r.dropped, panic |-> FALSE]
                 ELSE [node |-> node, kind |-> "Yes", ret |-> None,
                       dropped |-> r.dropped, panic |-> FALSE]
        ELSE [node |-> self, kind |-> "Yes", ret |-> None,
              dropped |-> << parent >>, panic |-> FALSE]

\* impl DeepSafeDrop<Self> for Value: fn set_parent_at_index_0
set_parent_at_index_0(self, parent) ==
    LET c == child_at_index_0(self)
    IN  IF c # None
        THEN LET r == replace_branch_node(self.slots[c[1]], parent)
                 node == [self EXCEPT !.slots[c[1]] = r.dest]
             IN  IF r.ret # None
                 THEN [node |-> node, kind |-> "YesReplacedChild", ret |-> r.ret,
                       dropped |-> r.dropped, panic |-> FALSE]
                 ELSE [node |-> node, kind |-> "Yes", ret |-> None,
                       dropped |-> r.dropped, panic |-> FALSE]
        ELSE [node |-> self, kind |-> "No", ret |-> Some(parent),
              dropped |-> << >>, panic |-> FALSE]

\* Variant of take_child_at_index_0: slot 0 is taken whatever it holds.
take_child_at_index_0_AnyValue(self) ==
    LET c == child_at_index_0(self)
    IN  IF c # None
        THEN [node |-> [self EXCEPT !.slots[c[1]] = LEAF], kind |-> "take",
              ret |-> Some(self.slots[c[1]]), dropped |-> << >>, panic |-> FALSE]
        ELSE [node |-> self, kind |-> "take", ret |-> None, dropped |-> << >>,
              panic |-> FALSE]

\* impl DeepSafeDrop<Self> for Value: fn take_child_at_index_0
take_child_at_index_0(self) ==
    LET c == child_at_index_0(self)
    IN  IF c # None
        THEN LET r == take_branch_node(self.slots[c[1]])
             IN  [node |-> [self EXCEPT !.slots[c[1]] = r.dest], kind |-> "take",
                  ret |-> r.ret, dropped |-> r.dropped, panic |-> FALSE]
        ELSE [node |-> self, kind |-> "take", ret |-> None, dropped |-> << >>,
              panic |-> FALSE]

\* Vec::pop: removes and returns the last element, None when empty.
pop(elems) ==
    IF Len(elems) = 0
    THEN [elems |-> elems, ret |-> None]
    ELSE [elems |-> SubSeq(elems, 1, Len(elems) - 1), ret |-> Some(elems[Len(elems)])]

\* Variant of the loop: the guard is `vector.len() >= 1`, so index 0 is popped.
RECURSIVE vector_loop_PopIndex0(_, _)
vector_loop_PopIndex0(vector, dropped) ==
    IF Len(vector.slots) >= 1
    THEN LET p == pop(vector.slots)
             popped == [vector EXCEPT !.slots = p.elems]
         IN  IF p.ret # None
             THEN LET next == p.ret[1]
                  IN  IF is_branch_node(next)
                      THEN [node |-> popped, kind |-> "take", ret |-> Some(next),
                            dropped |-> dropped, panic |-> FALSE]
                      ELSE vector_loop_PopIndex0(popped, Append(dropped, next))
             ELSE [node |-> popped, kind |-> "take", ret |-> None,
                   dropped |-> dropped, panic |-> TRUE]
    ELSE [node |-> vector, kind |-> "take", ret |-> None, dropped |-> dropped,
          panic |-> FALSE]

\* Variant of the loop: the guard is `vector.len() >= 0`, so an empty Vec is popped.
RECURSIVE vector_loop_PopEmpty(_, _)
vector_loop_PopEmpty(vector, dropped) ==
    IF Len(vector.slots) >= 0
    THEN LET p == pop(vector.slots)
             popped == [vector EXCEPT !.slots = p.elems]
         IN  IF p.ret # None
             THEN LET next == p.ret[1]
                  IN  IF is_branch_node(next)
                      THEN [node |-> popped, kind |-> "take", ret |-> Some(next),
                            dropped |-> dropped, panic |-> FALSE]
                      ELSE vector_loop_PopEmpty(popped, Append(dropped, next))
             ELSE [node |-> popped, kind |-> "take", ret |-> None,
                   dropped |-> dropped, panic |-> TRUE]
    ELSE [node |-> vector, kind |-> "take", ret |-> None, dropped |-> dropped,
          panic |-> FALSE]

\* The `loop` of the Value::Vector arm of take_next_child_at_pos_index.
RECURSIVE vector_loop(_, _)
vector_loop(vector, dropped) ==
    IF Len(vector.slots) >= 2
    THEN LET p == pop(vector.slots)
             popped == [vector EXCEPT !.slots = p.elems]
         IN  IF p.ret # None
             THEN LET next == p.ret[1]
                  IN  IF is_branch_node(next)
                      THEN [node |-> popped, kind |-> "take", ret |-> Some(next),
                            dropped |-> dropped, panic |-> FALSE]
                      ELSE vector_loop(popped, Append(dropped, next))
             ELSE [node |-> popped, kind |-> "take", ret |-> None,
                   dropped |-> dropped, panic |-> TRUE]
    ELSE [node |-> vector, kind |-> "take", ret |-> None, dropped |-> dropped,
          panic |-> FALSE]

\* Variant of take_next_child_at_pos_index: the Cons arm uses car_mut().
take_next_child_at_pos_index_Car(self) ==
    CASE self.tag = "Cons" ->
           LET r == take_branch_node(self.slots[1])
           IN  [node |-> [self EXCEPT !.slots[1] = r.dest], kind |-> "take",
                ret |-> r.ret, dropped |-> r.dropped, panic |-> FALSE]
      [] self.tag = "Vector" -> vector_loop(self, << >>)
      [] self.tag \in LeafTags ->
           [node |-> self, kind |-> "take", ret |-> None, dropped |-> << >>,
            panic |-> FALSE]

\* Variant of take_next_child_at_pos_index: the leaf arms are a wildcard arm
\* that takes the value itself.
take_next_child_at_pos_index_LeafTaken(self) ==
    CASE self.tag = "Cons" ->
           LET r == take_branch_node(self.slots[2])
           IN  [node |-> [self EXCEPT !.slots[2] = r.dest], kind |-> "take",
                ret |-> r.ret, dropped |-> r.dropped, panic |-> FALSE]
      [] self.tag = "Vector" -> vector_loop(self, << >>)
      [] self.tag \in LeafTags ->
           LET r == take_branch_node(self)
           IN  [node |-> r.dest, kind |-> "take", ret |-> r.ret,
                dropped |-> r.dropped, panic |-> FALSE]

\* impl DeepSafeDrop<Self> for Value: fn take_next_child_at_pos_index
take_next_child_at_pos_index(self) ==
    CASE self.tag = "Cons" ->
           LET r == take_branch_node(self.slots[2])
           IN  [node |-> [self EXCEPT !.slots[2] = r.dest], kind |-> "take",
                ret |-> r.ret, dropped |-> r.dropped, panic |-> FALSE]
      [] self.tag = "Vector" -> vector_loop(self, << >>)
      [] self.tag \in LeafTags ->
           [node |-> self, kind |-> "take", ret |-> None, dropped |-> << >>,
            panic |-> FALSE]

\* ------------------------------------------------- default (recursive) drop
RECURSIVE concat(_)
concat(seqs) == IF seqs = << >> THEN << >> ELSE Head(seqs) \o concat(Tail(seqs))

Max(a, b) == IF a >= b THEN a ELSE b

\* Compiler-added drop glue: the value, then each owned field in order.
RECURSIVE drop_glue(_)
drop_glue(value) ==
    << value.id >> \o concat([i \in 1..Len(value.slots) |-> drop_glue(value.slots[i])])

\* Number of nested drop_glue calls below the one made on `value`.
RECURSIVE glue_depth(_)
glue_depth(value) ==
    IF Len(value.slots) = 0 THEN 0
    ELSE 1 + CHOOSE m \in 0..64 :
                 /\ \A i \in 1..Len(value.slots) : glue_depth(value.slots[i]) <= m
                 /\ \E i \in 1..Len(value.slots) : glue_depth(value.slots[i]) = m

\* Ids finalized by dropping each of `values`; placeholders are not nodes.
finalize(values) ==
    SelectSeq(concat([i \in 1..Len(values) |-> drop_glue(values[i])]),
              LAMBDA id : id # PlaceholderId)

RECURSIVE deepest_of(_)
deepest_of(values) ==
    IF values = << >> THEN 0
    ELSE Max(glue_depth(Head(values)), deepest_of(Tail(values)))

\* ------------------------------------------------------ trees under bounds
TreeLeafTags == {"Number"}

RECURSIVE Build(_, _), Elems(_, _, _)
\* All trees of exactly n nodes whose root has id `path`.
Build(path, n) ==
    IF n = 0 THEN {}
    ELSE (IF n = 1 THEN {Leaf(t, path) : t \in TreeLeafTags} ELSE {})
         \cup UNION {{Cons(path, a, b) : a \in Build(Append(path, 1), j),
                                         b \in Build(Append(path, 2), n - 1 - j)}
                     : j \in 1..(n - 2)}
         \cup {Vector(path, e) : e \in Elems(path, 1, n - 1)}

\* All element lists of m nodes in total, the first at index k.
Elems(path, k, m) ==
    IF m = 0 THEN {<< >>}
    ELSE UNION {{<< t >> \o r : t \in Build(Append(path, k), a),
                                r \in Elems(path, k + 1, m - a)}
                : a \in 1..m}

Variants == {Leaf(t, RootId) : t \in LeafTags}

Trees(n) == Variants \cup UNION {Build(RootId, k) : k \in 1..n}

\* with_deep_tree_on_small_stack: `depth` nested 3-element vectors around a
\* Nil, the nested tree at index i % 3 of level i (level `level` is built last).
RECURSIVE deep_tree_level(_, _)
deep_tree_level(path, level) ==
    IF level < 0 THEN Leaf("Nil", path)
    ELSE Vector(path, [k \in 1..3 |->
                          IF k - 1 = level % 3
                          THEN deep_tree_level(Append(path, k), level - 1)
                          ELSE Leaf("Number", Append(path, k))])

deep_tree(depth) == deep_tree_level(RootId, depth - 1)

\* drop_long_list: Value::list of n numbers, a chain of n Cons cells linked
\* through the cdr, a number in each car and Nil in the last cdr.
RECURSIVE list_from(_, _)
list_from(path, n) ==
    IF n = 0 THEN Leaf("Nil", path)
    ELSE Cons(path, Leaf("Number", Append(path, 1)), list_from(Append(path, 2), n - 1))

list(n) == list_from(RootId, n)

\* Scenario C: a Cons of (a Vector holding one nested Cons and one leaf) and
\* (a Cons of two leaves).
scenario_c ==
    Cons(RootId,
         Vector(<< 1, 1 >>,
                << Cons(<< 1, 1, 1 >>, Leaf("Number", << 1, 1, 1, 1 >>),
                                       Leaf("Symbol", << 1, 1, 1, 2 >>)),
                   Leaf("String", << 1, 1, 2 >>) >>),
         Cons(<< 1, 2 >>, Leaf("Number", << 1, 2, 1 >>), Leaf("Nil", << 1, 2, 2 >>)))

Roots ==
    Trees(MaxNodes) \cup {deep_tree(d) : d \in 0..MaxDepth}
                   \cup {list(n) : n \in 0..MaxList}
                   \cup {scenario_c}

RECURSIVE NodeIds(_)
NodeIds(value) ==
    {value.id} \cup UNION {NodeIds(value.slots[i]) : i \in 1..Len(value.slots)}

\* ------------------------------------------------------------------- state
VARIABLES
    orig,       \* the tree handed to DeepSafeValueDropper (never changes)
    cursor,     \* Option: the node the driver is at
    pending,    \* Option: a detached child not yet linked to its ancestor
    pc,         \* position of the driver
    finalized,  \* ids of the original nodes finalized so far, in order
    deepest,    \* deepest nesting of drop glue run so far
    steps,      \* driver steps taken
    events,     \* what the driver did so far, in order: [ev, id, to]
    self,       \* receiver of single capability calls
    before,     \* receiver as it was before the last call
    call,       \* the last call: [op, arg]
    result,     \* what the last call returned
    history     \* the calls made on the receiver so far: [op, ret]

vars == << orig, cursor, pending, pc, finalized, deepest, steps, events,
           self, before, call, result, history >>

driverVars == << orig, cursor, pending, pc, finalized, deepest, steps, events >>

callVars == << self, before, call, result, history >>

NoCall == [op |-> "none", arg |-> None]

NoResult == [node |-> LEAF, kind |-> "none", ret |-> None, dropped |-> << >>,
             panic |-> FALSE]

\* ------------------------------------------------------ destruction driver
\* let wrapped = DeepSafeValueDropper(deep_tree); the driver starts at the root.
Init ==
    /\ orig \in Roots
    /\ cursor = Some(orig)
    /\ pending = None
    /\ pc = "leading"
    /\ finalized = << >>
    /\ deepest = 0
    /\ steps = 0
    /\ events = << >>
    /\ self = LEAF
    /\ before = LEAF
    /\ call = NoCall
    /\ result = NoResult
    /\ history = << >>

Event(ev, id, to) == [ev |-> ev, id |-> id, to |-> to]

Finals(values) ==
    [i \in 1..Len(finalize(values)) |->
        Event("final", finalize(values)[i], finalize(values)[i])]

\* Bookkeeping shared by the steps: the values dropped inside the call
\* (`values`), what the driver then did (`done`) and the values it dropped
\* afterwards (`after`).
Dropped(values, done, after) ==
    /\ finalized' = finalized \o finalize(values \o after)
    /\ deepest' = Max(deepest, deepest_of(values \o after))
    /\ steps' = steps + 1
    /\ events' = events \o Finals(values) \o done \o Finals(after)

\* Bookkeeping shared by the steps: the capability call made in this step.
Called(op, receiver, arg, r) ==
    /\ before' = receiver
    /\ call' = [op |-> op, arg |-> arg]
    /\ result' = r

\* Step 2: detach the leading child of the cursor.
TakeLeading ==
    /\ pc = "leading"
    /\ LET r == take_child_at_index_0(cursor[1])
       IN  /\ cursor' = Some(r.node)
           /\ pending' = r.ret
           /\ pc' = IF r.ret # None THEN "link" ELSE "next"
           /\ Dropped(r.dropped,
                      IF r.ret # None
                      THEN << Event("leading", r.ret[1].id, cursor[1].id) >>
                      ELSE << >>,
                      << >>)
           /\ Called("take_child_at_index_0", cursor[1], None, r)
    /\ UNCHANGED << orig, self, history >>

\* Step 3: detach the next child beyond slot 0.
TakeNext ==
    /\ pc = "next"
    /\ LET r == take_next_child_at_pos_index(cursor[1])
       IN  /\ cursor' = Some(r.node)
           /\ pending' = r.ret
           /\ pc' = IF r.panic THEN "panic"
                    ELSE IF r.ret # None THEN "link" ELSE "ascend"
           /\ Dropped(r.dropped,
                      IF r.ret # None
                      THEN << Event("next", r.ret[1].id, cursor[1].id) >>
                      ELSE << >>,
                      << >>)
           /\ Called("take_next_child_at_pos_index", cursor[1], None, r)
    /\ UNCHANGED << orig, self, history >>

\* Steps 2/3: record the cursor as the detached child's ancestor and descend;
\* a displaced child is the next one to be linked, below the new cursor.
SetLink ==
    /\ pc = "link"
    /\ LET r == set_parent_at_index_0(pending[1], cursor[1])
       IN  /\ Called("set_parent_at_index_0", pending[1], cursor, r)
           /\ CASE r.kind = "Yes" ->
                    /\ cursor' = Some(r.node)
                    /\ pending' = None
                    /\ pc' = "next"
                    /\ Dropped(r.dropped,
                               << Event("descend", pending[1].id, cursor[1].id) >>,
                               << >>)
               [] r.kind = "YesReplacedChild" ->
                    /\ cursor' = Some(r.node)
                    /\ pending' = r.ret
                    /\ pc' = "link"
                    /\ Dropped(r.dropped,
                               << Event("descend", pending[1].id, cursor[1].id),
                                  Event("displaced", r.ret[1].id, pending[1].id) >>,
                               << >>)
               [] r.kind = "No" ->
                    /\ cursor' = r.ret
                    /\ pending' = None
                    /\ pc' = "next"
                    /\ Dropped(r.dropped,
                               << Event("skip", pending[1].id, cursor[1].id) >>,
                               << r.node >>)
    /\ UNCHANGED << orig, self, history >>

\* Steps 4/5: no child remains; recover the ancestor from slot 0, finalize
\* the node and ascend, or end the walk when no ancestor is recorded.
Ascend ==
    /\ pc = "ascend"
    /\ LET r == take_child_at_index_0(cursor[1])
       IN  /\ Called("take_child_at_index_0", cursor[1], None, r)
           /\ IF r.ret # None
              THEN /\ cursor' = r.ret
                   /\ pc' = "next"
                   /\ Dropped(r.dropped,
                              << Event("ascend", cursor[1].id, r.ret[1].id) >>,
                              << r.node >>)
              ELSE /\ cursor' = Some(r.node)
                   /\ pc' = "returned"
                   /\ Dropped(r.dropped,
                              << Event("end", cursor[1].id, cursor[1].id) >>,
                              << >>)
    /\ UNCHANGED << orig, pending, self, history >>

\* impl Drop for DeepSafeValueDropper: after drop() returns, the field self.0
\* is dropped by the compiler-added glue.
Teardown ==
    /\ pc = "returned"
    /\ cursor' = None
    /\ pc' = "done"
    /\ Dropped(<< >>, << >>, << cursor[1] >>)
    /\ UNCHANGED << orig, pending, callVars >>

Next == TakeLeading \/ TakeNext \/ SetLink \/ Ascend \/ Teardown

Spec == Init /\ [][Next]_vars

FairSpec == Spec /\ WF_vars(Next)

\* ------------------------------------- single calls of the slot capability
\* Ancestors handed to set_parent_at_index_0; their ids are outside any tree.
Parents ==
    { Cons(<< 2 >>, Leaf("Number", << 2, 1 >>), Leaf("Nil", << 2, 2 >>)),
      Vector(<< 2 >>, << >>),
      Leaf("String", << 2 >>) }

OpsInit ==
    /\ self \in Trees(MaxOpNodes)
    /\ before = self
    /\ call = NoCall
    /\ result = NoResult
    /\ history = << >>
    /\ orig = LEAF
    /\ cursor = None
    /\ pending = None
    /\ pc = "idle"
    /\ finalized = << >>
    /\ deepest = 0
    /\ steps = 0
    /\ events = << >>

Returned(op, arg, r) ==
    /\ pc = "idle"
    /\ Len(history) < MaxCalls
    /\ before' = self
    /\ self' = r.node
    /\ call' = [op |-> op, arg |-> arg]
    /\ result' = r
    /\ history' = Append(history, [op |-> op, ret |-> r.ret])
    /\ UNCHANGED driverVars

CallSetParent ==
    \E parent \in Parents :
        Returned("set_parent_at_index_0", Some(parent), set_parent_at_index_0(self, parent))

CallTakeChild0 ==
    Returned("take_child_at_index_0", None, take_child_at_index_0(self))

CallTakeNext ==
    Returned("take_next_child_at_pos_index", None, take_next_child_at_pos_index(self))

OpsNext == CallSetParent \/ CallTakeChild0 \/ CallTakeNext

SpecOps == OpsInit /\ [][OpsNext]_vars

\* The wrapper's drop and the single calls together.
InitAll == Init \/ OpsInit

NextAll == Next \/ OpsNext

SpecAll == InitAll /\ [][NextAll]_vars

\* ------------------------------------------------------------------ claims
SeqRange(q) == {q[i] : i \in 1..Len(q)}

Count(q, x) == Cardinality({i \in 1..Len(q) : q[i] = x})

IsLeafValue(v) == v.tag \in LeafTags

IsBranchValue(v) == v.tag \in BranchTags

\* A valid Value: a known variant with the slots its variant has.
RECURSIVE WellFormed(_)
WellFormed(v) ==
    /\ DOMAIN v = {"tag", "id", "slots"}
    /\ v.tag \in Tags
    /\ v.tag = "Cons" => Len(v.slots) = 2
    /\ v.tag \in LeafTags => Len(v.slots) = 0
    /\ \A i \in 1..Len(v.slots) : WellFormed(v.slots[i])

\* C1: running the driver to completion finalizes every node of the original
\* tree, branch and leaf alike, exactly once: none is finalized twice at any
\* time, only nodes of the tree are finalized, and none is missing at the end.
C1_EveryNodeExactlyOnce ==
    /\ \A id \in SeqRange(finalized) : Count(finalized, id) = 1
    /\ SeqRange(finalized) \subseteq NodeIds(orig)
    /\ pc = "done" => SeqRange(finalized) = NodeIds(orig)

C1_Witness ==
    /\ pc = "done"
    /\ Cardinality(NodeIds(orig)) >= 6
    /\ glue_depth(orig) >= 3
    /\ Len(finalized) = Cardinality(NodeIds(orig))

\* C2: whenever a node is finalized it owns no branch child, so the default
\* recursive teardown never descends more than one level.
C2_TeardownIsShallow == deepest <= 1

C2_Witness ==
    /\ pc = "done"
    /\ deepest = 1
    /\ glue_depth(orig) >= 4
    /\ orig.tag = "Vector"
    /\ Len(orig.slots) = 3
    /\ \E i \in 1..3 : /\ IsBranchValue(orig.slots[i])
                       /\ Len(orig.slots[i].slots) = 3
                       /\ \E j \in 1..3 : /\ j # i
                                          /\ IsBranchValue(orig.slots[i].slots[j])

\* C3: for every finite tree the driver terminates: it eventually ascends
\* past the root and stops, and it never reaches the fatal branch.
C3_Terminates == <>(pc = "done") /\ [](pc # "panic")

C3_Witness ==
    /\ pc = "done"
    /\ steps >= 12
    /\ Cardinality(NodeIds(orig)) >= 6

\* C4: every value the driver holds is a valid Value in every state, and a
\* slot a child was detached from (slot 0 by take_child_at_index_0, the cdr of
\* a Cons by take_next_child_at_pos_index) holds the Nil placeholder afterwards.
C4_AlwaysWellFormed ==
    /\ \A v \in SeqRange(cursor) \cup SeqRange(pending) : WellFormed(v)
    /\ (call.op = "take_child_at_index_0" /\ result.ret # None)
           => result.node.slots[1] = Leaf("Nil", PlaceholderId)
    /\ (call.op = "take_next_child_at_pos_index" /\ before.tag = "Cons"
                                                 /\ result.ret # None)
           => result.node.slots[2] = Leaf("Nil", PlaceholderId)

C4_Witness ==
    /\ pc = "link"
    /\ call.op = "take_next_child_at_pos_index"
    /\ before.tag = "Cons"
    /\ result.ret # None
    /\ IsBranchValue(before.slots[1])

\* C5: set_parent_at_index_0 has exactly three outcomes decided by slot 0
\* before the call: no slot 0 -> No, node unchanged; slot 0 a leaf -> Yes, slot
\* 0 holds the parent; slot 0 a branch -> YesReplacedChild with that child,
\* slot 0 holds the parent.  No other slot changes.
C5_SetParentOutcomes ==
    call.op = "set_parent_at_index_0" =>
        LET b == before
            a == result.node
            parent == call.arg[1]
        IN  /\ result.kind \in {"No", "Yes", "YesReplacedChild"}
            /\ a.tag = b.tag /\ a.id = b.id /\ Len(a.slots) = Len(b.slots)
            /\ \A i \in 2..Len(b.slots) : a.slots[i] = b.slots[i]
            /\ Len(b.slots) = 0 => /\ result.kind = "No"
                                   /\ result.ret = << parent >>
                                   /\ a = b
            /\ (Len(b.slots) >= 1 /\ IsLeafValue(b.slots[1])) =>
                   /\ result.kind = "Yes"
                   /\ a.slots[1] = parent
            /\ (Len(b.slots) >= 1 /\ IsBranchValue(b.slots[1])) =>
                   /\ result.kind = "YesReplacedChild"
                   /\ result.ret = << b.slots[1] >>
                   /\ a.slots[1] = parent

C5_Witness ==
    /\ call.op = "set_parent_at_index_0"
    /\ result.kind = "YesReplacedChild"
    /\ before.tag = "Cons"
    /\ IsBranchValue(before.slots[2])
    /\ result.node.slots[2] = before.slots[2]

\* C6: take_child_at_index_0 returns the value of slot 0 iff slot 0 exists and
\* holds a branch, and then slot 0 holds a leaf placeholder; otherwise it
\* returns None.  It changes no other slot and no sequence's length.
C6_TakeLeadingChild ==
    call.op = "take_child_at_index_0" =>
        LET b == before
            a == result.node
            has == Len(b.slots) >= 1 /\ IsBranchValue(b.slots[1])
        IN  /\ (result.ret # None) <=> has
            /\ has => /\ result.ret = << b.slots[1] >>
                      /\ IsLeafValue(a.slots[1])
                      /\ a.slots[1].id = PlaceholderId
            /\ a.tag = b.tag /\ a.id = b.id /\ Len(a.slots) = Len(b.slots)
            /\ \A i \in 2..Len(b.slots) : a.slots[i] = b.slots[i]

C6_Witness ==
    /\ call.op = "take_child_at_index_0"
    /\ before.tag = "Vector"
    /\ Len(before.slots) >= 2
    /\ result.ret # None
    /\ IsBranchValue(before.slots[2])

\* C7: take_next_child_at_pos_index on a Vector of length n removes from the
\* tail only: it returns the branch element of highest index >= 1 (0-based),
\* discards the leaves above it and keeps exactly the elements below it; with
\* no such branch it returns None and leaves min(n, 1) elements.  Index 0 is
\* never removed or changed.
C7_TakeNextOnVector ==
    (call.op = "take_next_child_at_pos_index" /\ before.tag = "Vector") =>
        LET b == before
            a == result.node
            n == Len(b.slots)
            branches == {i \in 2..n : IsBranchValue(b.slots[i])}
        IN  /\ ~result.panic
            /\ a.tag = b.tag /\ a.id = b.id
            /\ n >= 1 => (Len(a.slots) >= 1 /\ a.slots[1] = b.slots[1])
            /\ n < 2 => (a = b /\ result.ret = None)
            /\ branches # {} =>
                   LET k == CHOOSE i \in branches : \A j \in branches : j <= i
                   IN  /\ result.ret = << b.slots[k] >>
                       /\ a.slots = SubSeq(b.slots, 1, k - 1)
                       /\ Len(result.dropped) = n - k
                       /\ \A j \in 1..(n - k) : result.dropped[j] = b.slots[n + 1 - j]
            /\ branches = {} =>
                   /\ result.ret = None
                   /\ Len(a.slots) = (IF n < 1 THEN n ELSE 1)
                   /\ a.slots = SubSeq(b.slots, 1, Len(a.slots))

C7_Witness ==
    /\ call.op = "take_next_child_at_pos_index"
    /\ before.tag = "Vector"
    /\ Len(before.slots) = 3
    /\ IsBranchValue(before.slots[2])
    /\ IsLeafValue(before.slots[3])
    /\ result.ret = << before.slots[2] >>
    /\ Len(result.node.slots) = 1

\* C8: take_next_child_at_pos_index on a Cons considers only the cdr: it
\* returns the cdr iff the cdr is a branch, at most once over any series of
\* calls on the same cell, and never changes the car.
C8_TakeNextOnCons ==
    /\ (call.op = "take_next_child_at_pos_index" /\ before.tag = "Cons") =>
           /\ result.ret = (IF IsBranchValue(before.slots[2])
                            THEN << before.slots[2] >> ELSE << >>)
           /\ result.node.slots[1] = before.slots[1]
           /\ result.node.tag = "Cons" /\ result.node.id = before.id
    /\ self.tag = "Cons" =>
           Cardinality({i \in 1..Len(history) :
                           /\ history[i].op = "take_next_child_at_pos_index"
                           /\ history[i].ret # None}) <= 1

C8_Witness ==
    /\ self.tag = "Cons"
    /\ Len(history) = 2
    /\ history[1].op = "take_next_child_at_pos_index"
    /\ history[1].ret # None
    /\ history[2].op = "take_next_child_at_pos_index"
    /\ history[2].ret = None
    /\ IsBranchValue(self.slots[1])

\* C9 (as stated): take_next_child_at_pos_index on a Cons whose cdr is a leaf
\* returns None and leaves that leaf in place: the cdr holds the same value
\* after the call and nothing is finalized by the call.
C9_TailLeafLeftInPlace ==
    (call.op = "take_next_child_at_pos_index" /\ before.tag = "Cons"
                                              /\ IsLeafValue(before.slots[2])) =>
        /\ result.ret = None
        /\ result.node.slots[2] = before.slots[2]
        /\ result.dropped = << >>

\* C9 (amended): take_next_child_at_pos_index on a Cons whose cdr is a leaf
\* returns None, replaces the cdr by the Nil placeholder and finalizes the
\* former cdr leaf during the call; the car is untouched.
C9_TailLeafReplaced ==
    (call.op = "take_next_child_at_pos_index" /\ before.tag = "Cons"
                                              /\ IsLeafValue(before.slots[2])) =>
        /\ result.ret = None
        /\ result.node.slots[2] = Leaf("Nil", PlaceholderId)
        /\ result.dropped = << before.slots[2] >>
        /\ result.node.slots[1] = before.slots[1]

C9_Witness ==
    /\ call.op = "take_next_child_at_pos_index"
    /\ before.tag = "Cons"
    /\ before.slots[2].tag = "Number"
    /\ result.ret = None
    /\ result.node.slots[2].tag = "Nil"

\* C10: is_branch_node is total over the eleven variants, true exactly for
\* Cons and Vector (a zero-length Vector included) and false for the nine
\* leaf variants; every value handed out as Some by a take operation or as a
\* displaced child is a branch.
C10_Classification ==
    /\ self.tag \in Tags
    /\ is_branch_node(self) \in BOOLEAN
    /\ is_branch_node(self) <=> self.tag \in {"Cons", "Vector"}
    /\ \A i \in 1..Len(self.slots) :
           is_branch_node(self.slots[i]) <=> self.slots[i].tag \in {"Cons", "Vector"}
    /\ (call.op \in {"take_child_at_index_0", "take_next_child_at_pos_index"}
            /\ result.ret # None) => result.ret[1].tag \in {"Cons", "Vector"}
    /\ result.kind = "YesReplacedChild" => result.ret[1].tag \in {"Cons", "Vector"}

C10_Witness ==
    /\ call.op = "take_next_child_at_pos_index"
    /\ result.ret # None
    /\ result.ret[1].tag = "Vector"
    /\ result.ret[1].slots = << >>
    /\ self.tag = "Vector"

\* C11: on a leaf of any of the nine leaf variants set_parent_at_index_0
\* returns No (handing the parent back) and both take operations return None,
\* each leaving the leaf unchanged and finalizing nothing; for a root that is
\* a leaf the driver detaches nothing and descends nowhere, and the wrapper
\* finalizes the same unchanged value, once, as the plain drop glue does.
C11_LeafUntouched ==
    /\ (call.op = "set_parent_at_index_0" /\ before.tag \in LeafTags) =>
           /\ result.kind = "No"
           /\ result.ret = call.arg
           /\ result.node = before
           /\ result.dropped = << >>
    /\ (call.op \in {"take_child_at_index_0", "take_next_child_at_pos_index"}
            /\ before.tag \in LeafTags) =>
           /\ result.ret = None
           /\ result.node = before
           /\ result.dropped = << >>
    /\ (pc # "idle" /\ orig.tag \in LeafTags) =>
           /\ pending = None
           /\ pc # "link"
           /\ \A i \in 1..Len(events) : events[i].ev \in {"end", "final"}
           /\ cursor = (IF pc = "done" THEN None ELSE Some(orig))
           /\ finalized = (IF pc = "done" THEN drop_glue(orig) ELSE << >>)

C11_Witness ==
    /\ pc = "done"
    /\ orig.tag = "String"
    /\ finalized = << orig.id >>
    /\ call.op = "take_child_at_index_0"
    /\ before = orig
    /\ steps = 4

RECURSIVE LeafIds(_)
LeafIds(v) ==
    IF v.tag \in LeafTags THEN {v.id}
    ELSE UNION {LeafIds(v.slots[i]) : i \in 1..Len(v.slots)}

BranchIds(v) == NodeIds(v) \ LeafIds(v)

FinalizedIn(ids) == Cardinality({i \in 1..Len(finalized) : finalized[i] \in ids})

Happened(evs) == \E i \in 1..Len(events) : events[i].ev \in evs

\* A child that sat in slot 0 was detached: taken from the root by
\* take_child_at_index_0, or displaced by the ancestor link.
LeadingPath == Happened({"leading", "displaced"})

\* A child beyond slot 0 was detached by take_next_child_at_pos_index.
NextPath == Happened({"next"})

\* C12 (as stated): for every depth N >= 0 the rotating tree of N nested
\* 3-element vectors is destroyed exercising both the leading-child and the
\* next-child path, with 2*N + 1 leaves and N vectors finalized, each once.
C12_BothPathsAtEveryDepth ==
    \A d \in 0..MaxDepth :
        (orig = deep_tree(d) /\ pc = "done") =>
            /\ LeadingPath /\ NextPath
            /\ FinalizedIn(LeafIds(orig)) = 2 * d + 1
            /\ FinalizedIn(BranchIds(orig)) = d
            /\ \A id \in NodeIds(orig) : Count(finalized, id) = 1

\* C12 (amended): for every depth N >= 0 destruction of the rotating tree
\* completes with 2*N + 1 leaves and N vectors finalized, each exactly once;
\* the next-child path is exercised exactly when N >= 2 and the leading-child
\* path exactly when N >= 4.
C12_RotatingTree ==
    \A d \in 0..MaxDepth :
        orig = deep_tree(d) =>
            /\ pc # "panic"
            /\ pc = "done" =>
                   /\ NextPath <=> d >= 2
                   /\ LeadingPath <=> d >= 4
                   /\ Cardinality(LeafIds(orig)) = 2 * d + 1
                   /\ FinalizedIn(LeafIds(orig)) = 2 * d + 1
                   /\ Cardinality(BranchIds(orig)) = d
                   /\ FinalizedIn(BranchIds(orig)) = d
                   /\ \A id \in NodeIds(orig) : Count(finalized, id) = 1

C12_Witness ==
    /\ orig = deep_tree(MaxDepth)
    /\ pc = "done"
    /\ Happened({"displaced"})
    /\ NextPath
    /\ Len(finalized) = 3 * MaxDepth + 1

\* C13: for every length N >= 1 the chain of N Cons cells linked through the
\* cdr is destroyed with every cell finalized exactly once and N + 1 leaves
\* finalized; the driver takes 4*N steps, linear in N.
C13_LongList ==
    \A n \in 1..MaxList :
        orig = list(n) =>
            /\ pc # "panic"
            /\ steps <= 4 * n
            /\ pc = "done" =>
                   /\ steps = 4 * n
                   /\ Cardinality(BranchIds(orig)) = n
                   /\ FinalizedIn(BranchIds(orig)) = n
                   /\ FinalizedIn(LeafIds(orig)) = n + 1
                   /\ \A id \in NodeIds(orig) : Count(finalized, id) = 1
                   /\ deepest <= 1

C13_Witness ==
    /\ orig = list(MaxList)
    /\ pc = "done"
    /\ Len(finalized) = 2 * MaxList + 1
    /\ NextPath

\* C14 (as stated): destroying the Scenario C root finalizes exactly 3 branch
\* nodes, each exactly once, and every leaf of the tree exactly once.
C14_ThreeBranchNodes ==
    (orig = scenario_c /\ pc = "done") =>
        /\ FinalizedIn(BranchIds(orig)) = 3
        /\ \A id \in NodeIds(orig) : Count(finalized, id) = 1

\* C14 (amended): the Scenario C root has 4 branch nodes (the root Cons, the
\* Vector, the nested Cons and the cdr Cons) and 5 leaves; destroying it
\* finalizes each of the 4 branch nodes and each of the 5 leaves exactly once.
C14_FourBranchNodes ==
    orig = scenario_c =>
        /\ Cardinality(BranchIds(orig)) = 4
        /\ Cardinality(LeafIds(orig)) = 5
        /\ \A id \in NodeIds(orig) : Count(finalized, id) <= 1
        /\ pc # "panic"
        /\ pc = "done" =>
               /\ FinalizedIn(BranchIds(orig)) = 4
               /\ FinalizedIn(LeafIds(orig)) = 5
               /\ \A id \in NodeIds(orig) : Count(finalized, id) = 1

C14_Witness ==
    /\ orig = scenario_c
    /\ pc = "done"
    /\ Len(finalized) = 9
    /\ LeadingPath
    /\ NextPath

\* The node of tree `v` with id `id` (ids are paths from the root).
RECURSIVE NodeAt(_, _)
NodeAt(v, id) ==
    IF v.id = id THEN v ELSE NodeAt(v.slots[id[Len(v.id) + 1]], id)

EventsAt(evs, id) == {i \in 1..Len(events) : events[i].ev \in evs /\ events[i].id = id}

\* C15: whenever set_parent_at_index_0 on a detached child reports a
\* displaced child (the child's slot 0 held a branch), that displaced value
\* is the next one handed to the driver, is visited and finalized exactly
\* once, and both happen before the driver follows the link stored in that
\* slot back up; it is never visited after the node holding the link is
\* finalized.
C15_DisplacedChildVisitedFirst ==
    /\ \A i \in 1..Len(events) :
           \* a detached child whose slot 0 held a branch reports it
           (events[i].ev = "descend"
                /\ Len(NodeAt(orig, events[i].id).slots) >= 1
                /\ NodeAt(orig, events[i].id).slots[1].tag \in BranchTags) =>
               /\ i < Len(events)
               /\ events[i + 1] = Event("displaced",
                                        NodeAt(orig, events[i].id).slots[1].id,
                                        events[i].id)
    /\ \A i \in 1..Len(events) :
           events[i].ev = "displaced" =>
               LET d == events[i].id
                   x == events[i].to
                   visits == EventsAt({"descend", "skip"}, d)
                   finals == EventsAt({"final"}, d)
               IN  /\ Cardinality(visits) <= 1
                   /\ Cardinality(finals) <= 1
                   /\ \A k \in visits \cup finals : k > i
                   /\ (i = Len(events)) => /\ pc = "link"
                                           /\ pending # None
                                           /\ pending[1].id = d
                                           /\ cursor[1].id = x
                   /\ \A j \in EventsAt({"ascend", "end", "final"}, x) :
                          /\ \E k \in visits : k < j
                          /\ \E k \in finals : k < j
                   /\ pc = "done" => (Cardinality(visits) = 1 /\ Cardinality(finals) = 1)

C15_Witness ==
    /\ pc = "done"
    /\ \E i \in 1..Len(events) :
           /\ events[i].ev = "displaced"
           /\ EventsAt({"descend"}, events[i].id) # {}
           /\ EventsAt({"ascend"}, events[i].to) # {}
           /\ \E j \in 1..Len(events) : /\ events[j].ev = "displaced"
                                        /\ events[j].to = events[i].id

ParentId(id) == SubSeq(id, 1, Len(id) - 1)

\* Following the links in slot 0 from `v` leads, node by node, to the root.
RECURSIVE LinksLeadToRoot(_)
LinksLeadToRoot(v) ==
    IF v.id = RootId THEN TRUE
    ELSE /\ Len(v.slots) >= 1
         /\ v.slots[1].tag \in BranchTags
         /\ v.slots[1].id = ParentId(v.id)
         /\ LinksLeadToRoot(v.slots[1])

\* One driver step keeps the link of the node it stays at, stores the cursor
\* itself as the link when it descends, and recovers the stored link when it
\* ascends.
LinkKeptByStep ==
    (cursor # None /\ cursor' # None /\ cursor[1].id # PlaceholderId) =>
        /\ (cursor'[1].id = cursor[1].id /\ cursor[1].id # RootId) =>
               /\ Len(cursor'[1].slots) >= 1
               /\ cursor'[1].slots[1] = cursor[1].slots[1]
               /\ result'.ret # << cursor[1].slots[1] >>
        /\ (pc = "link" /\ cursor'[1].id # cursor[1].id) =>
               /\ cursor'[1].id = pending[1].id
               /\ cursor'[1].slots[1] = cursor[1]
        /\ (pc = "link" /\ cursor'[1].id = cursor[1].id) => cursor' = cursor
        /\ (pc = "ascend" /\ cursor[1].id # RootId) =>
               /\ cursor'[1] = cursor[1].slots[1]
               /\ cursor'[1].id = ParentId(cursor[1].id)

\* C16: from the moment an ancestor link is stored in a node's slot 0 until
\* the driver ascends from that node, slot 0 holds that same ancestor: no
\* take_next_child_at_pos_index removes, replaces or returns it, ascending
\* recovers exactly the stored ancestor, and the links from the cursor always
\* lead back to the root.
C16_AncestorLinkKept ==
    /\ [](cursor # None => LinksLeadToRoot(cursor[1]))
    /\ [][LinkKeptByStep]_vars

C16_Witness ==
    /\ pc = "ascend"
    /\ cursor[1].id # RootId
    /\ cursor[1].slots[1].id # RootId
    /\ call.op = "take_next_child_at_pos_index"
    /\ before.tag = "Vector"
    /\ Len(before.slots) >= 3
    /\ Len(cursor[1].slots) = 1
    /\ Happened({"descend"})

\* Ids of the original nodes the driver still holds, one entry per place:
\* the cursor, the pending child, and every slot reachable from them (slot 0
\* links included).
Held == finalize(cursor \o pending)

\* C17: single ownership is kept through destruction: in every state each
\* node of the original tree is either finalized or held in exactly one
\* place, never in two and never in none, and nothing else is held.
C17_SingleOwnership ==
    /\ \A id \in NodeIds(orig) : Count(Held, id) + Count(finalized, id) = 1
    /\ SeqRange(Held) \subseteq NodeIds(orig)

C17_Witness ==
    /\ pc = "link"
    /\ Happened({"displaced"})
    /\ Len(finalized) >= 1
    /\ Len(Held) >= 4
    /\ cursor[1].id # RootId
    /\ cursor[1].slots[1].id = RootId

IsEmptyVector(v) == v.tag = "Vector" /\ Len(v.slots) = 0

\* C18: a zero-length Vector is a branch without slot 0: set_parent_at_index_0
\* on it returns No and hands the parent back unchanged, the driver goes on
\* with that ancestor and never descends into the empty Vector; a root that is
\* a zero-length Vector or a Cons of two leaves is destroyed without any
\* detach or descend, and every node of every tree is finalized exactly once.
C18_EmptyContainers ==
    /\ (call.op = "set_parent_at_index_0" /\ IsEmptyVector(before)) =>
           /\ result.kind = "No"
           /\ result.ret = call.arg
           /\ result.node = before
           /\ result.dropped = << >>
           /\ pc # "idle" => /\ cursor = call.arg
                             /\ pc = "next"
                             /\ events[Len(events) - 1] =
                                    Event("skip", before.id, cursor[1].id)
                             /\ events[Len(events)] = Event("final", before.id, before.id)
    /\ pc # "idle" =>
           /\ \A i \in 1..Len(events) :
                  /\ events[i].ev = "descend" => ~IsEmptyVector(NodeAt(orig, events[i].id))
                  /\ events[i].ev = "skip" => IsEmptyVector(NodeAt(orig, events[i].id))
                  /\ (events[i].ev \in {"leading", "next", "displaced"}
                         /\ IsEmptyVector(NodeAt(orig, events[i].id))
                         /\ i + 1 < Len(events)) =>
                         /\ events[i + 1] = Event("skip", events[i].id, events[i].to)
                         /\ events[i + 2] = Event("final", events[i].id, events[i].id)
           /\ (IsEmptyVector(orig)
                  \/ (orig.tag = "Cons" /\ orig.slots[1].tag \in LeafTags
                                        /\ orig.slots[2].tag \in LeafTags)) =>
                  /\ ~Happened({"leading", "next", "displaced", "descend", "skip", "ascend"})
                  /\ steps <= 4
           /\ \A id \in NodeIds(orig) : Count(finalized, id) <= 1
           /\ pc = "done" => \A id \in NodeIds(orig) : Count(finalized, id) = 1

C18_Witness ==
    /\ pc = "next"
    /\ call.op = "set_parent_at_index_0"
    /\ IsEmptyVector(before)
    /\ result.kind = "No"
    /\ cursor = call.arg
    /\ cursor[1].id # RootId
    /\ Happened({"displaced"})

\* C19: the unreachable!() branch of the Vector arm is never reached: no call
\* made so far hit it, and in every state every Vector the next call can be
\* made on yields an element whenever its length is at least 2, so the call
\* does not hit it either.
C19_PopNeverFails ==
    /\ pc # "panic"
    /\ ~result.panic
    /\ \A v \in SeqRange(cursor) \cup SeqRange(pending) \cup {self} :
           v.tag = "Vector" =>
               /\ Len(v.slots) >= 2 => pop(v.slots).ret = << v.slots[Len(v.slots)] >>
               /\ ~take_next_child_at_pos_index(v).panic

C19_Witness ==
    /\ pc = "ascend"
    /\ call.op = "take_next_child_at_pos_index"
    /\ before.tag = "Vector"
    /\ Len(before.slots) >= 3
    /\ Len(result.dropped) >= 2
    /\ before.id # RootId

====
